---- MODULE Spec2Model ----
(***************************************************************************)
(* evdev-rs, src/uinput.rs: UInputDevice, the binding of libevdev's uinput *)
(* device.  The model holds the Rust objects (UInputDevice values and the  *)
(* File values fd() hands out), the native libevdev_uinput structs they    *)
(* point to, the process descriptor table and the kernel uinput devices    *)
(* with the event records delivered to them.                               *)
(***************************************************************************)
EXTENDS Integers, Sequences, FiniteSets, TLC

\* ---------------------------------------------------------------- bounds
MaxFd == 1       \* descriptor numbers are 0..MaxFd
MaxFiles == 1    \* fd() calls per device
MaxWrites == 2   \* write_event calls that succeed in a run

\* Two UInputDevice values, created in this order: the second can be handed
\* the descriptor number a File of the first one closed.
Dev == {1, 2}
Fd == 0..MaxFd

\* ------------------------------------------------------- platform tables
\* errno numbers the native library reports (negated) to the binding
Errnos == [EPERM |-> 1, EBADF |-> 9, EACCES |-> 13, ENODEV |-> 19, EINVAL |-> 22]

\* nix::errno::Errno on Linux: every number of errno.h; 41 and 58 are unused
KnownErrno == (1..133) \ {41, 58}

\* Errno::from_i32: the variant of a known number, UnknownErrno (0) otherwise
Errno_from_i32(n) == IF n \in KnownErrno THEN n ELSE 0

\* input-event-codes.h numbers of the event codes used here
EvType == [EV_SYN |-> 0, EV_KEY |-> 1, EV_REL |-> 2]
EvCode == [SYN_REPORT |-> 0, REL_X |-> 0, BTN_LEFT |-> 272]

\* InputEvent values the caller writes: { event_code, value }
Events ==
  { [event_code |-> "EV_SYN_SYN_REPORT", value |-> 0],
    [event_code |-> "EV_REL_REL_X", value |-> 5] }

\* util::event_code_to_int: the (type, code) integers of an EventCode
event_code_to_int(ec) ==
  CASE ec = "EV_SYN_SYN_REPORT" -> <<EvType.EV_SYN, EvCode.SYN_REPORT>>
    [] ec = "EV_REL_REL_X" -> <<EvType.EV_REL, EvCode.REL_X>>
    [] ec = "EV_KEY_BTN_LEFT" -> <<EvType.EV_KEY, EvCode.BTN_LEFT>>

\* the record of the kernel's event channel: {type, code, value}
IsSync(rec) == rec[1] = EvType.EV_SYN /\ rec[2] = EvCode.SYN_REPORT

\* ---------------------------------------------------------- result values
Ok == [tag |-> "Ok", num |-> 0, str |-> ""]
Err(e) == [tag |-> "Err", num |-> e, str |-> ""]
None == [tag |-> "None", num |-> 0, str |-> ""]
SomeFile(n) == [tag |-> "Some", num |-> n, str |-> ""]
SomeStr(s) == [tag |-> "Some", num |-> 0, str |-> s]
NotOpen == [tag |-> "NotOpen", num |-> 0, str |-> ""]
NoCall == [tag |-> "NoCall", num |-> 0, str |-> ""]

NullPtr == "NULL"
SysPath == "/sys/devices/virtual/input/input1"
DevNode == "/dev/input/event1"

VARIABLES
  obj,       \* obj[d]: the UInputDevice value: "NoObject", "Created", "Destroyed"
  raw,       \* raw[d]: the libevdev_uinput struct behind UInputDevice.raw
  fdtab,     \* fdtab[n]: what descriptor number n of the process is open on
  kdev,      \* kdev[d]: the kernel's uinput device: "absent", "live", "destroyed"
  chan,      \* chan[d]: the records delivered to the kernel device, in order
  visible,   \* visible[d]: how many records of chan[d] listeners have seen
  files,     \* files[d]: live File values returned by fd() of device d
  closes,    \* closes[d]: close() calls issued on the descriptor of device d
  destroys,  \* destroys[d]: libevdev_uinput_destroy calls for device d
  log,       \* the write_event calls that returned Ok: [dev, ev], in call order
  last       \* the last call: its operation, device, native result and return

prog == <<obj, raw, fdtab, kdev, chan, visible, files, closes, destroys, log>>
vars == <<obj, raw, fdtab, kdev, chan, visible, files, closes, destroys, log, last>>

NullRaw == [alloc |-> FALSE, get_fd |-> -1, get_syspath |-> NullPtr, get_devnode |-> NullPtr]
ClosedFd == [kind |-> "closed", dev |-> 0]
OtherFd == [kind |-> "other", dev |-> 0]
UinputFd(d) == [kind |-> "uinput", dev |-> d]

OpenCount == Cardinality({n \in Fd : fdtab[n].kind # "closed"})
LiveKdevs == Cardinality({d \in Dev : kdev[d] = "live"})

Call(op, d, native, ret, dead) ==
  [op |-> op, dev |-> d, native |-> native, ret |-> ret,
   openBefore |-> IF op = "create" THEN OpenCount ELSE 0,
   kdevBefore |-> IF op = "create" THEN LiveKdevs ELSE 0, dead |-> dead]

\* the process starts with descriptor 0 open (stdin) or closed, the rest free
Init ==
  /\ obj = [d \in Dev |-> "NoObject"]
  /\ raw = [d \in Dev |-> NullRaw]
  /\ fdtab \in {[n \in Fd |-> IF n = 0 THEN z ELSE ClosedFd] : z \in {OtherFd, ClosedFd}}
  /\ kdev = [d \in Dev |-> "absent"]
  /\ chan = [d \in Dev |-> <<>>]
  /\ visible = [d \in Dev |-> 0]
  /\ files = [d \in Dev |-> 0]
  /\ closes = [d \in Dev |-> 0]
  /\ destroys = [d \in Dev |-> 0]
  /\ log = <<>>
  /\ last = [op |-> "none", dev |-> 0, native |-> 0, ret |-> NoCall,
             openBefore |-> 0, kdevBefore |-> 0, dead |-> FALSE]


\* ------------------------------------------------ the native library side
HasFree == \E n \in Fd : fdtab[n].kind = "closed"

\* open(2) returns the lowest descriptor number that is not open
LowestFree ==
  CHOOSE n \in Fd : fdtab[n].kind = "closed" /\ \A m \in Fd : m < n => fdtab[m].kind # "closed"

\* libevdev_uinput_create_from_device returns 0 or a negative errno
NativeCreateResults == {0, -Errnos.EACCES, -Errnos.ENODEV, -Errnos.EINVAL}

\* the syspath and devnode libevdev resolves at creation: the devnode is looked
\* up under the syspath, so it is resolved only when the syspath is
NativePaths == { <<NullPtr, NullPtr>>, <<SysPath, NullPtr>>, <<SysPath, DevNode>> }

\* libevdev_uinput_write_event returns 0 or a negative errno: -EBADF on a
\* descriptor number that is not open
NativeWriteResults(target) ==
  CASE target.kind = "uinput" -> {0, -Errnos.EINVAL}
    [] target.kind = "closed" -> {-Errnos.EBADF}
    [] OTHER -> {-Errnos.EINVAL}

FdTarget(n) == IF n \in Fd THEN fdtab[n] ELSE ClosedFd

\* close(n): the number becomes free; closing the descriptor of a uinput
\* device destroys that device
fdtab_after_close(n) == IF n \in Fd THEN [fdtab EXCEPT ![n] = ClosedFd] ELSE fdtab
kdev_after_close(n) ==
  IF FdTarget(n).kind = "uinput" THEN [kdev EXCEPT ![FdTarget(n).dev] = "destroyed"] ELSE kdev

\* ------------------------------------------------------ UInputDevice code
\* create_from_device: match result { 0 => Ok(..), error => Err(from_i32(-error)) }
create_match_ok(result) == Ok
create_match(result) == IF result = 0 THEN Ok ELSE Err(Errno_from_i32(-result))

\* write_event: match result { 0 => Ok(()), error => Err(from_i32(-error)) }
write_match_nosign(result) == IF result = 0 THEN Ok ELSE Err(Errno_from_i32(result))
write_match(result) == IF result = 0 THEN Ok ELSE Err(Errno_from_i32(-result))

\* fd: if result == 0 { None } else { Some(File::from_raw_fd(result)) }
fd_match_neg(result) == IF result < 0 THEN None ELSE SomeFile(result)
fd_match(result) == IF result = 0 THEN None ELSE SomeFile(result)

\* string_getter!: None for a null pointer, Some(string) otherwise
string_getter(ptr) == IF ptr = NullPtr THEN None ELSE SomeStr(ptr)

\* the native getter each query is bound to
PathGetter_swapped(q, n) == IF q = "devnode" THEN n.get_syspath ELSE n.get_devnode
PathGetter(q, n) == IF q = "devnode" THEN n.get_devnode ELSE n.get_syspath

\* devnode() / syspath() of device d: the getter's pointer through string_getter!
query(q, d) == string_getter(PathGetter(q, raw[d]))

\* write_event: the native writes one call makes, each <<type, code, value>>
write_calls_autosync(event) ==
  << <<event_code_to_int(event.event_code)[1], event_code_to_int(event.event_code)[2],
       event.value>>,
     <<EvType.EV_SYN, EvCode.SYN_REPORT, 0>> >>
write_calls(event) ==
  << <<event_code_to_int(event.event_code)[1], event_code_to_int(event.event_code)[2],
       event.value>> >>

create_from_device(d) ==
  /\ obj[d] = "NoObject"
  /\ \A c \in Dev : c < d => obj[c] # "NoObject"
  /\ \E result \in NativeCreateResults, paths \in NativePaths :
       /\ result = 0 => HasFree
       /\ result # 0 => paths = <<NullPtr, NullPtr>>
       /\ LET ret == create_match(result)
              n == LowestFree
          IN /\ raw' = [raw EXCEPT ![d] =
                          IF result = 0
                          THEN [alloc |-> TRUE, get_fd |-> n,
                                get_syspath |-> paths[1], get_devnode |-> paths[2]]
                          ELSE NullRaw]
             /\ fdtab' = IF result = 0 THEN [fdtab EXCEPT ![n] = UinputFd(d)] ELSE fdtab
             /\ kdev' = IF result = 0 THEN [kdev EXCEPT ![d] = "live"] ELSE kdev
             /\ obj' = [obj EXCEPT ![d] = IF ret.tag = "Ok" THEN "Created" ELSE "NoObject"]
             /\ last' = Call("create", d, result, ret, FALSE)
  /\ UNCHANGED <<chan, visible, files, closes, destroys, log>>

devnode_take(d) ==
  /\ obj[d] = "Created"
  /\ LET ret == query("devnode", d)
     IN last' = Call("devnode", d, 0, ret, kdev[d] = "destroyed")
  /\ raw' = [raw EXCEPT ![d].get_devnode = NullPtr]
  /\ UNCHANGED <<obj, fdtab, kdev, chan, visible, files, closes, destroys, log>>

devnode(d) ==
  /\ obj[d] = "Created"
  /\ LET ret == query("devnode", d)
     IN last' = Call("devnode", d, 0, ret, kdev[d] = "destroyed")
  /\ UNCHANGED prog

syspath(d) ==
  /\ obj[d] = "Created"
  /\ LET ret == query("syspath", d)
     IN last' = Call("syspath", d, 0, ret, kdev[d] = "destroyed")
  /\ UNCHANGED prog

\* fd(): the File it returns owns the descriptor number and closes it when dropped
fd(d) ==
  /\ obj[d] = "Created"
  /\ files[d] + closes[d] < MaxFiles   \* File values handed out so far
  /\ LET result == raw[d].get_fd
         ret == fd_match(result)
     IN /\ files' = [files EXCEPT ![d] = IF ret.tag = "Some" THEN @ + 1 ELSE @]
        /\ last' = Call("fd", d, result, ret, kdev[d] = "destroyed")
  /\ UNCHANGED <<obj, raw, fdtab, kdev, chan, visible, closes, destroys, log>>

\* a File returned by fd() of device d goes out of scope: close(its number).
\* The File keeps the number, also after the device itself is gone.
drop_File(d) ==
  /\ files[d] > 0
  /\ files' = [files EXCEPT ![d] = @ - 1]
  /\ closes' = [closes EXCEPT ![d] = @ + 1]
  /\ fdtab' = fdtab_after_close(raw[d].get_fd)
  /\ kdev' = kdev_after_close(raw[d].get_fd)
  /\ last' = Call("drop_file", d, 0, NoCall, FALSE)
  /\ UNCHANGED <<obj, raw, chan, visible, destroys, log>>

LastSyncIn(s) ==
  IF \E i \in 1..Len(s) : IsSync(s[i])
  THEN CHOOSE i \in 1..Len(s) : IsSync(s[i]) /\ \A j \in 1..Len(s) : IsSync(s[j]) => j <= i
  ELSE 0

write_event(d, event) ==
  /\ obj[d] = "Created"
  /\ Len(log) < MaxWrites
  /\ LET target == FdTarget(raw[d].get_fd)
         recs == write_calls(event)
     IN \E result \in NativeWriteResults(target) :
          LET ret == write_match(result)
              k == target.dev
          IN /\ chan' = IF result = 0 THEN [chan EXCEPT ![k] = @ \o recs] ELSE chan
             /\ visible' = IF result = 0 /\ LastSyncIn(recs) > 0
                           THEN [visible EXCEPT ![k] = Len(chan[k]) + LastSyncIn(recs)]
                           ELSE visible
             /\ log' = IF ret = Ok THEN Append(log, [dev |-> d, ev |-> event]) ELSE log
             /\ last' = Call("write_event", d, result, ret, kdev[d] = "destroyed")
  /\ UNCHANGED <<obj, raw, fdtab, kdev, files, closes, destroys>>

\* Drop for UInputDevice: libevdev_uinput_destroy issues UI_DEV_DESTROY on the
\* struct's descriptor number, closes it (LIBEVDEV_UINPUT_OPEN_MANAGED) and
\* frees the struct
drop(d) ==
  /\ obj[d] = "Created"
  /\ obj' = [obj EXCEPT ![d] = "Destroyed"]
  /\ raw' = [raw EXCEPT ![d].alloc = FALSE]
  /\ destroys' = [destroys EXCEPT ![d] = @ + 1]
  /\ closes' = [closes EXCEPT ![d] = IF raw[d].alloc /\ raw[d].get_fd >= 0 THEN @ + 1 ELSE @]
  /\ fdtab' = fdtab_after_close(raw[d].get_fd)
  /\ kdev' = kdev_after_close(raw[d].get_fd)
  /\ last' = Call("drop", d, 0, NoCall, FALSE)
  /\ UNCHANGED <<chan, visible, files, log>>

Next ==
  \/ \E d \in Dev : create_from_device(d)
  \/ \E d \in Dev : devnode(d)
  \/ \E d \in Dev : syspath(d)
  \/ \E d \in Dev : fd(d)
  \/ \E d \in Dev : drop_File(d)
  \/ \E d \in Dev, event \in Events : write_event(d, event)
  \/ \E d \in Dev : drop(d)

Spec == Init /\ [][Next]_vars


\* ------------------------------------------------------------ properties
Queries == {"devnode", "syspath"}

SyncCount(s) == Cardinality({i \in 1..Len(s) : IsSync(s[i])})

RECURSIVE SumOver(_, _)
SumOver(S, f) ==
  IF S = {} THEN 0 ELSE LET x == CHOOSE y \in S : TRUE IN f[x] + SumOver(S \ {x}, f)

\* the record a listener expects for an event the caller wrote
RecordOf(event) ==
  <<event_code_to_int(event.event_code)[1], event_code_to_int(event.event_code)[2], event.value>>

WritesOn(d) == SelectSeq(log, LAMBDA w : w.dev = d)

\* C1: fd() never transfers ownership of the descriptor: while a device is
\* Created its descriptor stays open on its own kernel device, whatever
\* happens to the values fd() returned, and fd() keeps returning that number.
C1_FdKeepsOwnership ==
  /\ \A d \in Dev :
       obj[d] = "Created" => FdTarget(raw[d].get_fd) = UinputFd(d) /\ kdev[d] = "live"
  /\ last.op = "fd" => last.ret \in {None, SomeFile(raw[last.dev].get_fd)}

\* C2: the kernel resource of a device is released exactly once: its
\* descriptor is closed at most once and the native destroy is issued exactly
\* once for a device that was created and then destroyed.
C2_ReleasedExactlyOnce ==
  \A d \in Dev :
    /\ closes[d] <= 1
    /\ destroys[d] <= 1
    /\ obj[d] = "Destroyed" => destroys[d] = 1
    /\ obj[d] # "Destroyed" => destroys[d] = 0

\* C3: create_from_device is all-or-nothing: after a call either the native
\* result was 0 and an object in Created is bound to one new live kernel device
\* on one new open descriptor, or the call returned Err, no object exists and
\* the open descriptors and kernel devices are the ones there were before.
C3_CreateAllOrNothing ==
  last.op = "create" =>
    LET d == last.dev IN
      \/ /\ last.ret = Ok
         /\ last.native = 0
         /\ obj[d] = "Created"
         /\ raw[d].alloc
         /\ FdTarget(raw[d].get_fd) = UinputFd(d)
         /\ kdev[d] = "live"
         /\ OpenCount = last.openBefore + 1
         /\ LiveKdevs = last.kdevBefore + 1
      \/ /\ last.ret.tag = "Err"
         /\ last.native # 0
         /\ obj[d] = "NoObject"
         /\ ~raw[d].alloc
         /\ kdev[d] = "absent"
         /\ OpenCount = last.openBefore
         /\ LiveKdevs = last.kdevBefore

\* a create failed while another device held an open descriptor
C3_FailedCreateSeen ==
  /\ last.op = "create"
  /\ last.ret.tag = "Err"
  /\ last.openBefore > 0
  /\ \E c \in Dev : obj[c] = "Created"

\* C4: the records delivered to a device's event channel are exactly the
\* events of the write_event calls on that device that returned Ok, one record
\* per call, in call order.
C4_OrderPreserved ==
  \A d \in Dev :
    chan[d] = [i \in 1..Len(WritesOn(d)) |-> RecordOf(WritesOn(d)[i].ev)]

\* C5: listeners have seen the records of a channel up to its last
\* synchronization record and none after it, and the synchronization records
\* delivered are as many as the synchronization events the caller passed to
\* write_event calls that succeeded: write_event adds none of its own.
C5_SyncBarrier ==
  /\ \A d \in Dev : visible[d] = LastSyncIn(chan[d])
  /\ SumOver(Dev, [d \in Dev |-> SyncCount(chan[d])])
       = Cardinality({i \in 1..Len(log) : IsSync(RecordOf(log[i].ev))})
  /\ SumOver(Dev, [d \in Dev |-> Len(chan[d])]) = Len(log)

\* a channel holds a synchronized record followed by a pending event that
\* listeners have not seen
C5_PendingAfterSync ==
  \E d \in Dev :
    /\ Len(chan[d]) = 2
    /\ IsSync(chan[d][1])
    /\ ~IsSync(chan[d][2])
    /\ visible[d] = 1

\* C6: a write_event, devnode, syspath or fd call on a device whose kernel
\* device is already destroyed fails with NotOpen.
C6_NotOpenOnceDestroyed ==
  last.op \in {"write_event", "devnode", "syspath", "fd"} /\ last.dead
    => last.ret = NotOpen

\* C7: create_from_device and write_event return Ok for native result 0 and
\* Err carrying the errno number -r for every nonzero native result r.
C7_ErrnoSurfaced ==
  last.op \in {"create", "write_event"} =>
    /\ last.native = 0 => last.ret = Ok
    /\ last.native # 0 => last.ret = Err(-last.native)

\* a write_event call surfaced a kernel error
C7_WriteErrorSeen ==
  /\ last.op = "write_event"
  /\ last.native = -Errnos.EINVAL
  /\ last.ret = Err(Errnos.EINVAL)

\* C8: for a device in Created, syspath returning None implies devnode
\* returning None.
C8_SyspathNoneImpliesDevnodeNone ==
  /\ \A d \in Dev :
       obj[d] = "Created" /\ query("syspath", d) = None => query("devnode", d) = None
  /\ last.op = "syspath" /\ last.ret = None /\ obj[last.dev] = "Created"
       => query("devnode", last.dev) = None
  /\ last.op = "devnode" /\ last.ret.tag = "Some" /\ obj[last.dev] = "Created"
       => query("syspath", last.dev).tag = "Some"

\* syspath was called on a device whose syspath could not be resolved
C8_UnknownSyspathSeen ==
  /\ last.op = "syspath"
  /\ last.ret = None
  /\ obj[last.dev] = "Created"

\* C9: a devnode or syspath call changes nothing of the device, its
\* descriptor, its lifecycle state or the delivered events, and no step
\* changes what either query returns while the device stays Created.
C9_QueriesReadOnly ==
  [][ /\ (last'.op \in Queries /\ last' # last) => UNCHANGED prog
      /\ \A d \in Dev : \A q \in Queries :
           obj[d] = "Created" /\ obj'[d] = "Created" => query(q, d)' = query(q, d)
    ]_vars

\* devnode was called, and returned the node, after a write and an fd() call
C9_QueryAfterWrite ==
  /\ last.op = "devnode"
  /\ last.ret = SomeStr(DevNode)
  /\ WritesOn(last.dev) # <<>>
  /\ files[last.dev] > 0

\* C10: fd() returns None exactly when the native library reports descriptor
\* number 0 and Some of the reported number otherwise.
C10_FdNoneIffZero ==
  last.op = "fd" =>
    /\ last.ret = None <=> last.native = 0
    /\ last.native # 0 => last.ret = SomeFile(last.native)

\* a device whose real, open descriptor is 0 reported no handle
C10_DescriptorZeroSeen ==
  /\ last.op = "fd"
  /\ last.native = 0
  /\ last.ret = None
  /\ FdTarget(0) = UinputFd(last.dev)

====
